---- MODULE Spec2Model ----
(***************************************************************************)
(* JamSync backend: the in-memory room registry (rooms.js) and the         *)
(* Socket.IO event handlers that use it (server.js), with the variants of  *)
(* server.js that add a now-playing update (unnamed/part_000..002).        *)
(*                                                                         *)
(* JavaScript values are modelled as follows.  Identifiers (room ids,      *)
(* socket ids, names) are strings; the value undefined is the token        *)
(* Undefined.  A JavaScript Set is the sequence of its elements in         *)
(* insertion order, without repetition, which is what iteration and        *)
(* Array.from observe.  The registry object `rooms` is a function from     *)
(* its own keys to Sets; a property read rooms[k] for a k that is not an   *)
(* own key falls through to Object.prototype.                              *)
(***************************************************************************)
EXTENDS Naturals, Sequences, FiniteSets, TLC

VARIABLES
    rooms,        \* rooms.js: the registry object (own keys -> Set of socket ids)
    status,       \* per socket id: "new" | "connected" | "disconnected"
    socketRooms,  \* per socket id: socket.rooms, the transport-level rooms, in join order
    emitted,      \* the emissions of the event handled last, in the order emitted
    last,         \* the call or event handled last
    crashed,      \* an exception escaped an event handler: the process is gone
    roster,       \* per socket id: per room, the room-users payload it received last
    pending       \* the now-playing fetches awaiting the external service's answer

vars == <<rooms, status, socketRooms, emitted, last, crashed, roster, pending>>

----------------------------------------------------------------------------
(* Bounds and input sets *)

MaxSockets == 2

SocketNames == <<"s1", "s2", "s3", "s4", "s5">>

SocketIds == {SocketNames[i] : i \in 1..MaxSockets}

Undefined == "<undefined>"

\* Names every plain object inherits from Object.prototype.
ProtoKeys == {"constructor", "toString"}

\* The `length` of the inherited value: Object.length is 1, toString.length is 0.
ProtoLength(k) == IF k = "constructor" THEN 1 ELSE 0

RoomIds == {"jam1", "", "constructor", "toString"}

Range(s) == {s[i] : i \in DOMAIN s}

Count(x, s) == Cardinality({i \in DOMAIN s : s[i] = x})

----------------------------------------------------------------------------
(* rooms.js *)

\* Set.prototype.add: appends the value unless it is already an element.
SetAdd(set, x) == IF x \in Range(set) THEN set ELSE Append(set, x)

\* Set.prototype.delete
SetDelete(set, x) == SelectSeq(set, LAMBDA y : y # x)

\* Truthiness of the property read rooms[roomId]: an own Set, or a value
\* inherited from Object.prototype (a function), is truthy; a missing
\* property reads as undefined.
RoomsTruthy(reg, roomId) == roomId \in DOMAIN reg \/ roomId \in ProtoKeys

\* rooms[roomId] = new Set()
PutEmpty(reg, roomId) ==
    [k \in DOMAIN reg \cup {roomId} |-> IF k = roomId THEN <<>> ELSE reg[k]]

\* delete rooms[roomId]
DeleteKey(reg, roomId) == [k \in DOMAIN reg \ {roomId} |-> reg[k]]

\* Mutant of addUserToRoom: the room's set is created anew on every call
\* (the test `if (!rooms[roomId])` is missing).
addUserToRoom_Replaces(reg, roomId, socketId) ==
    [rooms |-> [k \in DOMAIN reg \cup {roomId} |->
                  IF k = roomId THEN <<socketId>> ELSE reg[k]],
     threw |-> FALSE]

\* addUserToRoom(roomId, socketId).  rooms[roomId].add is a TypeError when
\* rooms[roomId] is an inherited function, which has no method `add`.
addUserToRoom(reg, roomId, socketId) ==
    LET reg1 == IF ~RoomsTruthy(reg, roomId) THEN PutEmpty(reg, roomId) ELSE reg
    IN  IF roomId \in DOMAIN reg1
        THEN [rooms |-> [reg1 EXCEPT ![roomId] = SetAdd(@, socketId)], threw |-> FALSE]
        ELSE [rooms |-> reg1, threw |-> TRUE]

\* Mutant of removeUserFromRoom: the empty room is not cleaned up.
removeUserFromRoom_NoCleanup(reg, roomId, socketId) ==
    IF RoomsTruthy(reg, roomId)
    THEN IF roomId \in DOMAIN reg
         THEN [rooms |-> [reg EXCEPT ![roomId] = SetDelete(@, socketId)], threw |-> FALSE]
         ELSE [rooms |-> reg, threw |-> TRUE]
    ELSE [rooms |-> reg, threw |-> FALSE]

\* Mutant of removeUserFromRoom: the room is deleted whoever else is in it.
removeUserFromRoom_DropsRoom(reg, roomId, socketId) ==
    IF RoomsTruthy(reg, roomId)
    THEN IF roomId \in DOMAIN reg
         THEN [rooms |-> DeleteKey(reg, roomId), threw |-> FALSE]
         ELSE [rooms |-> reg, threw |-> TRUE]
    ELSE [rooms |-> reg, threw |-> FALSE]

\* removeUserFromRoom(roomId, socketId)
removeUserFromRoom(reg, roomId, socketId) ==
    IF RoomsTruthy(reg, roomId)
    THEN IF roomId \in DOMAIN reg
         THEN LET reg1 == [reg EXCEPT ![roomId] = SetDelete(@, socketId)]
              IN  IF Len(reg1[roomId]) = 0
                  THEN [rooms |-> DeleteKey(reg1, roomId), threw |-> FALSE]
                  ELSE [rooms |-> reg1, threw |-> FALSE]
         ELSE [rooms |-> reg, threw |-> TRUE]
    ELSE [rooms |-> reg, threw |-> FALSE]

\* getUsersInRoom(roomId).  Array.from of a Set lists its elements in
\* insertion order; Array.from of an inherited function, which is not
\* iterable, reads its `length` and yields that many undefined entries.
getUsersInRoom(reg, roomId) ==
    IF RoomsTruthy(reg, roomId)
    THEN IF roomId \in DOMAIN reg
         THEN reg[roomId]
         ELSE [i \in 1..ProtoLength(roomId) |-> Undefined]
    ELSE <<>>

----------------------------------------------------------------------------
(* Direct calls of the registry's exported functions *)

NoCall == [op |-> "none", sock |-> Undefined, room |-> Undefined, arg |-> Undefined,
           threw |-> FALSE, ret |-> <<>>, again |-> FALSE]

\* The preceding call was addUserToRoom(roomId, socketId).
AfterAdd(roomId, socketId) ==
    /\ last.op = "addUserToRoom"
    /\ last.room = roomId
    /\ last.sock = socketId

CallAddUserToRoom(roomId, socketId) ==
    LET r == addUserToRoom(rooms, roomId, socketId)
    IN  /\ rooms' = r.rooms
        /\ last' = [op |-> "addUserToRoom", sock |-> socketId, room |-> roomId,
                    arg |-> Undefined, threw |-> r.threw, ret |-> <<>>,
                    again |-> AfterAdd(roomId, socketId)]
        /\ UNCHANGED <<status, socketRooms, emitted, crashed, roster, pending>>

CallRemoveUserFromRoom(roomId, socketId) ==
    LET r == removeUserFromRoom(rooms, roomId, socketId)
    IN  /\ rooms' = r.rooms
        /\ last' = [op |-> "removeUserFromRoom", sock |-> socketId, room |-> roomId,
                    arg |-> Undefined, threw |-> r.threw, ret |-> <<>>,
                    again |-> AfterAdd(roomId, socketId)]
        /\ UNCHANGED <<status, socketRooms, emitted, crashed, roster, pending>>

CallGetUsersInRoom(roomId) ==
    /\ last' = [op |-> "getUsersInRoom", sock |-> Undefined, room |-> roomId,
                arg |-> Undefined, threw |-> FALSE, ret |-> getUsersInRoom(rooms, roomId),
                again |-> FALSE]
    /\ UNCHANGED <<rooms, status, socketRooms, emitted, crashed, roster, pending>>

Init ==
    /\ rooms = <<>>
    /\ status = [s \in SocketIds |-> "new"]
    /\ socketRooms = [s \in SocketIds |-> <<>>]
    /\ emitted = <<>>
    /\ last = NoCall
    /\ crashed = FALSE
    /\ roster = [s \in SocketIds |-> <<>>]
    /\ pending = <<>>

NextRegistry ==
    \/ \E roomId \in RoomIds, socketId \in SocketIds : CallAddUserToRoom(roomId, socketId)
    \/ \E roomId \in RoomIds, socketId \in SocketIds : CallRemoveUserFromRoom(roomId, socketId)
    \/ \E roomId \in RoomIds : CallGetUsersInRoom(roomId)

SpecRegistry == Init /\ [][NextRegistry]_vars

----------------------------------------------------------------------------
(* server.js: the Socket.IO event handlers *)

\* Inputs of the handlers.
Usernames == {"bob", "", Undefined}

Senders == {"alice", "", Undefined}

Messages == {"hi"}

SignalKinds == {"offer", "answer", "ice-candidate"}

\* new Date().toISOString() at the instants the clock may show.
IsoStrings == <<"2024-05-01T10:00:00.000Z", "2024-05-01T10:00:00.001Z">>

\* The roomId field of a chat or signaling payload; it may be missing.
TargetRoomIds == {"jam1", "", Undefined}

NoPayload == [tag |-> "undefined"]

ChatPayloads ==
    {[tag |-> "object", roomId |-> r, message |-> m, sender |-> s] :
        r \in TargetRoomIds, m \in Messages, s \in Senders} \cup {NoPayload}

SignalPayloads ==
    {[tag |-> "object", roomId |-> r, sdp |-> "sdp"] : r \in TargetRoomIds} \cup {NoPayload}

\* a || b on strings and undefined: the empty string and undefined are falsy.
Or(a, b) == IF a = Undefined \/ a = "" THEN b ELSE a

\* The sockets the adapter holds in a room.
InRoom(sr, roomId) == {t \in SocketIds : roomId \in Range(sr[t])}

\* io.in(roomId).emit(ev, payload): to every socket in the room.
IoIn(sr, roomId, ev, payload) ==
    [ev |-> ev, room |-> roomId, payload |-> payload, to |-> InRoom(sr, roomId)]

\* Mutant of SocketTo: the sender is not left out (io.in for socket.to).
SocketTo_InclSender(sr, socketId, roomId, ev, payload) ==
    [ev |-> ev, room |-> roomId, payload |-> payload, to |-> InRoom(sr, roomId)]

\* socket.to(roomId).emit(ev, payload): to every socket in the room but the sender.
SocketTo(sr, socketId, roomId, ev, payload) ==
    [ev |-> ev, room |-> roomId, payload |-> payload, to |-> InRoom(sr, roomId) \ {socketId}]

\* obj[key] = value on a record of per-room values.
Put(obj, key, value) ==
    [k \in DOMAIN obj \cup {key} |-> IF k = key THEN value ELSE obj[k]]

\* What the clients keep of the emissions `ems`: each connected socket an
\* emission of 'room-users' goes to now holds its payload as the roster of
\* that room.
RECURSIVE Deliver(_, _, _)
Deliver(ros, st, ems) ==
    IF ems = <<>>
    THEN ros
    ELSE LET e == Head(ems)
             ros1 == IF e.ev = "room-users"
                     THEN [s \in SocketIds |->
                             IF s \in e.to /\ st[s] = "connected"
                             THEN Put(ros[s], e.room, e.payload)
                             ELSE ros[s]]
                     ELSE ros
         IN  Deliver(ros1, st, Tail(ems))

\* Some emission of `ems` goes to a socket.
Reaches(ems) == \E i \in DOMAIN ems : ems[i].to # {}

\* The fetches in flight once a later event of socketId has had the
\* broadcasts `ems` emitted: a fetch socketId started earlier has been passed.
Pass(pend, socketId, ems) ==
    [i \in DOMAIN pend |->
        IF pend[i].sock = socketId /\ Reaches(ems)
        THEN [pend[i] EXCEPT !.passed = TRUE]
        ELSE pend[i]]

Event(op, socketId, roomId, arg, threw) ==
    [op |-> op, sock |-> socketId, room |-> roomId, arg |-> arg,
     threw |-> threw, ret |-> <<>>, again |-> FALSE]

\* io.on('connection'): a new socket; Socket.IO puts it in the room named by its id.
Connection(socketId) ==
    /\ ~crashed
    /\ status[socketId] = "new"
    /\ status' = [status EXCEPT ![socketId] = "connected"]
    /\ socketRooms' = [socketRooms EXCEPT ![socketId] = <<socketId>>]
    /\ emitted' = <<>>
    /\ last' = Event("connection", socketId, Undefined, Undefined, FALSE)
    /\ UNCHANGED <<rooms, crashed, roster, pending>>

\* Mutant of JoinRoom: the snapshot is taken before the joiner is added.
JoinRoom_StaleSnapshot(socketId, roomId, username) ==
    /\ ~crashed
    /\ status[socketId] = "connected"
    /\ LET sr == [socketRooms EXCEPT ![socketId] = SetAdd(@, roomId)]
           r  == addUserToRoom(rooms, roomId, socketId)
       IN  /\ socketRooms' = sr
           /\ rooms' = r.rooms
           /\ crashed' = r.threw
           /\ emitted' =
                IF r.threw THEN <<>>
                ELSE << SocketTo(sr, socketId, roomId, "user-joined", Or(username, socketId)),
                        IoIn(sr, roomId, "room-users", getUsersInRoom(rooms, roomId)) >>
           /\ last' = Event("join-room", socketId, roomId, username, r.threw)
    /\ roster' = Deliver(roster, status, emitted')
    /\ pending' = Pass(pending, socketId, emitted')
    /\ UNCHANGED status

\* Mutant of JoinRoom: a join of a room the socket is already in emits nothing.
JoinRoom_Deduplicated(socketId, roomId, username) ==
    /\ ~crashed
    /\ status[socketId] = "connected"
    /\ LET sr == [socketRooms EXCEPT ![socketId] = SetAdd(@, roomId)]
           r  == addUserToRoom(rooms, roomId, socketId)
       IN  /\ socketRooms' = sr
           /\ rooms' = r.rooms
           /\ crashed' = r.threw
           /\ emitted' =
                IF r.threw \/ r.rooms = rooms THEN <<>>
                ELSE << SocketTo(sr, socketId, roomId, "user-joined", Or(username, socketId)),
                        IoIn(sr, roomId, "room-users", getUsersInRoom(r.rooms, roomId)) >>
           /\ last' = Event("join-room", socketId, roomId, username, r.threw)
    /\ roster' = Deliver(roster, status, emitted')
    /\ pending' = Pass(pending, socketId, emitted')
    /\ UNCHANGED status

\* socket.on('join-room', (roomId, username) => ...)
JoinRoom(socketId, roomId, username) ==
    /\ ~crashed
    /\ status[socketId] = "connected"
    /\ LET sr == [socketRooms EXCEPT ![socketId] = SetAdd(@, roomId)]
           r  == addUserToRoom(rooms, roomId, socketId)
       IN  /\ socketRooms' = sr
           /\ rooms' = r.rooms
           /\ crashed' = r.threw
           /\ emitted' =
                IF r.threw THEN <<>>
                ELSE << SocketTo(sr, socketId, roomId, "user-joined", Or(username, socketId)),
                        IoIn(sr, roomId, "room-users", getUsersInRoom(r.rooms, roomId)) >>
           /\ last' = Event("join-room", socketId, roomId, username, r.threw)
    /\ roster' = Deliver(roster, status, emitted')
    /\ pending' = Pass(pending, socketId, emitted')
    /\ UNCHANGED status

\* Mutant of ChatMessage: the message goes to the others only (socket.to for io.in).
ChatMessage_ToOthers(socketId, payload, now) ==
    /\ ~crashed
    /\ status[socketId] = "connected"
    /\ IF payload.tag = "undefined"
       THEN /\ crashed' = TRUE
            /\ emitted' = <<>>
            /\ last' = Event("chat-message", socketId, Undefined, payload, TRUE)
       ELSE /\ crashed' = FALSE
            /\ emitted' =
                 << SocketTo(socketRooms, socketId, payload.roomId, "chat-message",
                         [sender |-> Or(payload.sender, "Anonymous"),
                          message |-> payload.message,
                          timestamp |-> IsoStrings[now]]) >>
            /\ last' = Event("chat-message", socketId, payload.roomId, payload, FALSE)
    /\ pending' = Pass(pending, socketId, emitted')
    /\ UNCHANGED <<rooms, status, socketRooms, roster>>

\* Mutant of ChatMessage: the handler also registers the sender in the room.
ChatMessage_JoinsSender(socketId, payload, now) ==
    /\ ~crashed
    /\ status[socketId] = "connected"
    /\ IF payload.tag = "undefined"
       THEN /\ crashed' = TRUE
            /\ emitted' = <<>>
            /\ rooms' = rooms
            /\ last' = Event("chat-message", socketId, Undefined, payload, TRUE)
       ELSE /\ crashed' = FALSE
            /\ emitted' =
                 << IoIn(socketRooms, payload.roomId, "chat-message",
                         [sender |-> Or(payload.sender, "Anonymous"),
                          message |-> payload.message,
                          timestamp |-> IsoStrings[now]]) >>
            /\ rooms' = addUserToRoom(rooms, payload.roomId, socketId).rooms
            /\ last' = Event("chat-message", socketId, payload.roomId, payload, FALSE)
    /\ pending' = Pass(pending, socketId, emitted')
    /\ UNCHANGED <<status, socketRooms, roster>>

\* socket.on('chat-message', ({ roomId, message, sender }) => ...).  Destructuring
\* a missing payload is a TypeError.
ChatMessage(socketId, payload, now) ==
    /\ ~crashed
    /\ status[socketId] = "connected"
    /\ IF payload.tag = "undefined"
       THEN /\ crashed' = TRUE
            /\ emitted' = <<>>
            /\ last' = Event("chat-message", socketId, Undefined, payload, TRUE)
       ELSE /\ crashed' = FALSE
            /\ emitted' =
                 << IoIn(socketRooms, payload.roomId, "chat-message",
                         [sender |-> Or(payload.sender, "Anonymous"),
                          message |-> payload.message,
                          timestamp |-> IsoStrings[now]]) >>
            /\ last' = Event("chat-message", socketId, payload.roomId, payload, FALSE)
    /\ pending' = Pass(pending, socketId, emitted')
    /\ UNCHANGED <<rooms, status, socketRooms, roster>>

\* socket.on(kind, (data) => socket.to(data.roomId).emit(kind, data)) for the
\* three signaling kinds.  Reading data.roomId of a missing payload is a TypeError.
Signal(kind, socketId, data) ==
    /\ ~crashed
    /\ status[socketId] = "connected"
    /\ IF data.tag = "undefined"
       THEN /\ crashed' = TRUE
            /\ emitted' = <<>>
            /\ last' = Event(kind, socketId, Undefined, data, TRUE)
       ELSE /\ crashed' = FALSE
            /\ emitted' = << SocketTo(socketRooms, socketId, data.roomId, kind, data) >>
            /\ last' = Event(kind, socketId, data.roomId, data, FALSE)
    /\ pending' = Pass(pending, socketId, emitted')
    /\ UNCHANGED <<rooms, status, socketRooms, roster>>

\* Mutant of LeaveRooms: the snapshot is taken before the leaver is removed.
RECURSIVE LeaveRooms_KeepsLeaver(_, _, _, _, _)
LeaveRooms_KeepsLeaver(reg, sr, socketId, todo, out) ==
    IF todo = <<>>
    THEN [rooms |-> reg, out |-> out, threw |-> FALSE]
    ELSE LET roomId == Head(todo)
             r == removeUserFromRoom(reg, roomId, socketId)
         IN  IF r.threw
             THEN [rooms |-> r.rooms, out |-> out, threw |-> TRUE]
             ELSE LeaveRooms_KeepsLeaver(r.rooms, sr, socketId, Tail(todo),
                     out \o << SocketTo(sr, socketId, roomId, "user-left", socketId),
                               IoIn(sr, roomId, "room-users", getUsersInRoom(reg, roomId)) >>)

\* The forEach of the 'disconnecting' handler over the rooms left to visit;
\* an exception ends it.
RECURSIVE LeaveRooms(_, _, _, _, _)
LeaveRooms(reg, sr, socketId, todo, out) ==
    IF todo = <<>>
    THEN [rooms |-> reg, out |-> out, threw |-> FALSE]
    ELSE LET roomId == Head(todo)
             r == removeUserFromRoom(reg, roomId, socketId)
         IN  IF r.threw
             THEN [rooms |-> r.rooms, out |-> out, threw |-> TRUE]
             ELSE LeaveRooms(r.rooms, sr, socketId, Tail(todo),
                     out \o << SocketTo(sr, socketId, roomId, "user-left", socketId),
                               IoIn(sr, roomId, "room-users", getUsersInRoom(r.rooms, roomId)) >>)

\* socket.on('disconnecting'), then Socket.IO takes the socket out of its rooms.
Disconnecting(socketId) ==
    /\ ~crashed
    /\ status[socketId] = "connected"
    /\ LET todo == SelectSeq(socketRooms[socketId], LAMBDA r : r # socketId)
           res  == LeaveRooms(rooms, socketRooms, socketId, todo, <<>>)
       IN  /\ rooms' = res.rooms
           /\ emitted' = res.out
           /\ crashed' = res.threw
           /\ last' = Event("disconnecting", socketId, Undefined, Undefined, res.threw)
           /\ roster' = [Deliver(roster, status, res.out) EXCEPT ![socketId] = <<>>]
    /\ status' = [status EXCEPT ![socketId] = "disconnected"]
    /\ socketRooms' = [socketRooms EXCEPT ![socketId] = <<>>]
    /\ UNCHANGED pending

Next ==
    \/ \E s \in SocketIds : Connection(s)
    \/ \E s \in SocketIds, r \in RoomIds, u \in Usernames : JoinRoom(s, r, u)
    \/ \E s \in SocketIds, p \in ChatPayloads, t \in DOMAIN IsoStrings : ChatMessage(s, p, t)
    \/ \E k \in SignalKinds, s \in SocketIds, d \in SignalPayloads : Signal(k, s, d)
    \/ \E s \in SocketIds : Disconnecting(s)

Spec == Init /\ [][Next]_vars

\* The session lifecycle alone (connection, join-room, disconnecting).  A
\* room identifier is any string the client passes, so it may be the id of a
\* session, and Socket.IO keeps each socket in the room named by its own id:
\* the first session's id is among the identifiers passed here.
JoinRoomIds == {"jam1", "constructor", SocketNames[1]}

NextLifecycle ==
    \/ \E s \in SocketIds : Connection(s)
    \/ \E s \in SocketIds, r \in JoinRoomIds, u \in Usernames : JoinRoom(s, r, u)
    \/ \E s \in SocketIds : Disconnecting(s)

SpecLifecycle == Init /\ [][NextLifecycle]_vars

\* The five kinds of event of server.js on two rooms: an ordinary one, and the
\* one named by the first session's id, in which Socket.IO keeps that session
\* whether it sent join-room for it or not.
RoutedRoomIds == {"jam1", SocketNames[1]}

RoutedChatPayloads ==
    {[tag |-> "object", roomId |-> r, message |-> "hi", sender |-> "alice"] :
        r \in RoutedRoomIds}

RoutedSignalPayloads ==
    {[tag |-> "object", roomId |-> r, sdp |-> "sdp"] : r \in RoutedRoomIds}

NextRouting ==
    \/ \E s \in SocketIds : Connection(s)
    \/ \E s \in SocketIds, r \in RoutedRoomIds : JoinRoom(s, r, "bob")
    \/ \E s \in SocketIds, p \in RoutedChatPayloads : ChatMessage(s, p, 1)
    \/ \E k \in SignalKinds, s \in SocketIds, d \in RoutedSignalPayloads : Signal(k, s, d)
    \/ \E s \in SocketIds : Disconnecting(s)

SpecRouting == Init /\ [][NextRouting]_vars

----------------------------------------------------------------------------
(* unnamed/part_000, part_001, part_002: the variants of server.js with a     *)
(* now-playing update.  Their join-room, chat-message and signaling handlers  *)
(* are those of server.js; their 'disconnecting' handler emits user-left only.*)

MaxPending == 1

\* The JavaScript value null, as a payload.
Null == [null |-> TRUE]

\* !x on strings and undefined
Falsy(x) == x = Undefined \/ x = ""

AccessTokens == {"token", "", Undefined}

NowPlayingPayloads ==
    {[tag |-> "object", roomId |-> "jam1", accessToken |-> a] : a \in AccessTokens}
    \cup {[tag |-> "object", roomId |-> Undefined, accessToken |-> Undefined], NoPayload}

\* response.data.item of the currently-playing answer: a track with album
\* art, a track whose album has no image (a local file), an item that is
\* not a track, and no item.
TrackItems ==
    {[type |-> "track", name |-> "Song", artists |-> <<"Ann", "Ben">>, images |-> <<"art.jpg">>],
     [type |-> "track", name |-> "Demo", artists |-> <<"Ann">>, images |-> <<>>]}

OtherItems ==
    {[type |-> "episode", name |-> "Talk", artists |-> <<>>, images |-> <<"show.jpg">>],
     [type |-> Undefined, name |-> Undefined, artists |-> <<>>, images |-> <<>>]}

\* The outcomes of axios.get: a response (204 without content, 200 with an
\* item), or an error raised.
FetchAnswers ==
    {[tag |-> "response", status |-> 204, item |-> it] : it \in {CHOOSE o \in OtherItems : o.type = Undefined}}
    \cup {[tag |-> "response", status |-> 200, item |-> it] : it \in TrackItems \cup OtherItems}
    \cup {[tag |-> "error"]}

\* names.join(', ')
RECURSIVE JoinNames(_)
JoinNames(names) ==
    IF names = <<>> THEN ""
    ELSE IF Len(names) = 1 THEN names[1]
    ELSE names[1] \o ", " \o JoinNames(Tail(names))

\* The track object built from trackData.  album.images[0].url is a
\* TypeError when the album has no image.
TrackOf(trackData) ==
    IF trackData.images = <<>>
    THEN [threw |-> TRUE, track |-> Null]
    ELSE [threw |-> FALSE,
          track |-> [title |-> trackData.name,
                     artist |-> JoinNames(trackData.artists),
                     albumArt |-> trackData.images[1]]]

\* What the try block emits once axios.get has answered; an exception in it,
\* raised by axios or by the construction of the track, is caught and logged.
NowPlayingEmits(sr, roomId, answer) ==
    IF answer.tag = "error" THEN <<>>
    ELSE IF answer.status = 204 THEN << IoIn(sr, roomId, "now-playing", Null) >>
    ELSE IF answer.item.type = "track"
         THEN IF TrackOf(answer.item).threw THEN <<>>
              ELSE << IoIn(sr, roomId, "now-playing", TrackOf(answer.item).track) >>
         ELSE << IoIn(sr, roomId, "now-playing", Null) >>

\* part_002: socket.on('update-now-playing', async ({ roomId, accessToken }) => ...)
\* up to its await.  Destructuring a missing payload rejects the promise the
\* async handler returns, which nobody handles: the runtime either ends the
\* process (fatal) or only warns.
UpdateNowPlaying(socketId, payload, fatal) ==
    /\ ~crashed
    /\ status[socketId] = "connected"
    /\ IF payload.tag = "undefined"
       THEN /\ crashed' = fatal
            /\ pending' = pending
            /\ last' = Event("update-now-playing", socketId, Undefined, payload, TRUE)
       ELSE IF Falsy(payload.accessToken)
       THEN /\ crashed' = FALSE
            /\ pending' = pending
            /\ last' = Event("update-now-playing", socketId, payload.roomId, payload, FALSE)
       ELSE /\ Len(pending) < MaxPending
            /\ crashed' = FALSE
            /\ pending' = Append(pending, [sock |-> socketId, roomId |-> payload.roomId,
                                           passed |-> FALSE])
            /\ last' = Event("update-now-playing", socketId, payload.roomId, payload, FALSE)
    /\ emitted' = <<>>
    /\ UNCHANGED <<rooms, status, socketRooms, roster>>

\* part_000, part_001: app.post('/update-now-playing') up to its await.  The
\* request belongs to no socket.
PostUpdateNowPlaying(body) ==
    /\ ~crashed
    /\ IF Falsy(body.accessToken) \/ Falsy(body.roomId)
       THEN pending' = pending
       ELSE /\ Len(pending) < MaxPending
            /\ pending' = Append(pending, [sock |-> Undefined, roomId |-> body.roomId,
                                           passed |-> FALSE])
    /\ emitted' = <<>>
    /\ last' = Event("POST /update-now-playing", Undefined, body.roomId, body, FALSE)
    /\ UNCHANGED <<rooms, status, socketRooms, crashed, roster>>

\* The fetches left in flight when the i-th has answered and `ems` was
\* emitted for it: those the same socket started before it have been passed.
PassEarlier(pend, i, ems) ==
    [j \in 1..(Len(pend) - 1) |->
        IF j < i
        THEN IF pend[j].sock = pend[i].sock /\ pend[i].sock # Undefined /\ Reaches(ems)
             THEN [pend[j] EXCEPT !.passed = TRUE]
             ELSE pend[j]
        ELSE pend[j + 1]]

\* The rest of the now-playing handler, run when axios.get has answered the
\* i-th fetch in flight.
FetchCompletes(i, answer) ==
    /\ ~crashed
    /\ i \in DOMAIN pending
    /\ LET req == pending[i]
           ems == NowPlayingEmits(socketRooms, req.roomId, answer)
       IN  /\ emitted' = ems
           /\ last' = Event("now-playing", req.sock, req.roomId,
                            [answer |-> answer, passed |-> req.passed], FALSE)
           /\ pending' = PassEarlier(pending, i, ems)
    /\ UNCHANGED <<rooms, status, socketRooms, crashed, roster>>

\* The forEach of the variants' 'disconnecting' handler.
RECURSIVE LeaveRoomsUserLeft(_, _, _, _, _)
LeaveRoomsUserLeft(reg, sr, socketId, todo, out) ==
    IF todo = <<>>
    THEN [rooms |-> reg, out |-> out, threw |-> FALSE]
    ELSE LET roomId == Head(todo)
             r == removeUserFromRoom(reg, roomId, socketId)
         IN  IF r.threw
             THEN [rooms |-> r.rooms, out |-> out, threw |-> TRUE]
             ELSE LeaveRoomsUserLeft(r.rooms, sr, socketId, Tail(todo),
                     Append(out, SocketTo(sr, socketId, roomId, "user-left", socketId)))

\* The variants' socket.on('disconnecting'): removeUserFromRoom and user-left
\* for each room, no room-users.
DisconnectingUserLeft(socketId) ==
    /\ ~crashed
    /\ status[socketId] = "connected"
    /\ LET todo == SelectSeq(socketRooms[socketId], LAMBDA r : r # socketId)
           res  == LeaveRoomsUserLeft(rooms, socketRooms, socketId, todo, <<>>)
       IN  /\ rooms' = res.rooms
           /\ emitted' = res.out
           /\ crashed' = res.threw
           /\ last' = Event("disconnecting", socketId, Undefined, Undefined, res.threw)
           /\ roster' = [Deliver(roster, status, res.out) EXCEPT ![socketId] = <<>>]
    /\ status' = [status EXCEPT ![socketId] = "disconnected"]
    /\ socketRooms' = [socketRooms EXCEPT ![socketId] = <<>>]
    /\ UNCHANGED pending

PostBodies ==
    {[roomId |-> r, accessToken |-> a] : r \in {"jam1", Undefined}, a \in AccessTokens}

\* The inputs of the handlers the variants share with server.js, where the
\* now-playing update is what is looked at: one room and its inherited-name
\* counterpart, a chat with and without a room, and no payload at all.
VariantRoomIds == {"jam1", "constructor"}

VariantChatPayloads ==
    {p \in ChatPayloads : p.tag = "undefined" \/ (p.sender = "alice" /\ p.roomId # "")}

VariantSignalPayloads == {d \in SignalPayloads : d.tag = "undefined" \/ d.roomId # ""}

\* unnamed/part_002
NextPart002 ==
    \/ \E s \in SocketIds : Connection(s)
    \/ \E s \in SocketIds, r \in VariantRoomIds : JoinRoom(s, r, "bob")
    \/ \E s \in SocketIds, p \in VariantChatPayloads : ChatMessage(s, p, 1)
    \/ \E s \in SocketIds, p \in NowPlayingPayloads, fatal \in BOOLEAN : UpdateNowPlaying(s, p, fatal)
    \/ \E i \in 1..MaxPending, a \in FetchAnswers : FetchCompletes(i, a)
    \/ \E k \in SignalKinds, s \in SocketIds, d \in VariantSignalPayloads : Signal(k, s, d)
    \/ \E s \in SocketIds : DisconnectingUserLeft(s)

SpecPart002 == Init /\ [][NextPart002]_vars

\* unnamed/part_000 and part_001
NextPart000 ==
    \/ \E b \in PostBodies : PostUpdateNowPlaying(b)
    \/ \E i \in 1..MaxPending, a \in FetchAnswers : FetchCompletes(i, a)
    \/ \E s \in SocketIds : Connection(s)
    \/ \E s \in SocketIds, r \in VariantRoomIds : JoinRoom(s, r, "bob")
    \/ \E s \in SocketIds, p \in VariantChatPayloads : ChatMessage(s, p, 1)
    \/ \E k \in SignalKinds, s \in SocketIds, d \in VariantSignalPayloads : Signal(k, s, d)
    \/ \E s \in SocketIds : DisconnectingUserLeft(s)

SpecPart000 == Init /\ [][NextPart000]_vars

----------------------------------------------------------------------------
(* Claims about the registry *)

RegistryOps == {"addUserToRoom", "removeUserFromRoom", "getUsersInRoom"}

\* The members stored under an own key of the registry.
OwnMembers(reg, roomId) == IF roomId \in DOMAIN reg THEN Range(reg[roomId]) ELSE {}

\* C1: no room key of the registry maps to an empty membership set: a room
\* is a key of the registry exactly when its stored set has a member.
C1_NoEmptyRoom ==
    /\ \A r \in DOMAIN rooms : Len(rooms[r]) >= 1
    /\ \A r \in RoomIds : (r \in DOMAIN rooms) <=> (OwnMembers(rooms, r) # {})

\* C1 witness: a removal right after the matching add took the last member
\* out, and the room's key is gone while another room is still registered.
C1_Witness ==
    /\ last.op = "removeUserFromRoom"
    /\ last.again
    /\ ~last.threw
    /\ last.room \notin DOMAIN rooms
    /\ DOMAIN rooms # {}

\* C2: after addUserToRoom(R,P), getUsersInRoom(R) lists P exactly once,
\* and a second consecutive addUserToRoom(R,P) leaves the registry as the
\* first call left it; for every room identifier R.
C2_JoinIdempotent ==
    [][last'.op = "addUserToRoom" =>
          /\ Count(last'.sock, getUsersInRoom(rooms', last'.room)) = 1
          /\ (last'.again => rooms' = rooms)]_vars

\* C2 on the identifiers for which addUserToRoom returns: the same statement
\* holds there, so the inherited names are the only inputs that break it.
C2_WhereAddReturns ==
    [][(last'.op = "addUserToRoom" /\ ~last'.threw) =>
          /\ Count(last'.sock, getUsersInRoom(rooms', last'.room)) = 1
          /\ (last'.again => rooms' = rooms)]_vars

\* C3, as claimed: after addUserToRoom(R,P) followed by
\* removeUserFromRoom(R,P), getUsersInRoom(R) is empty and R is no key of
\* the registry.  Stated for calls that both return, so that a violation
\* does not rest on the TypeError an inherited name raises.
C3_Original ==
    (last.op = "removeUserFromRoom" /\ last.again /\ ~last.threw) =>
        /\ getUsersInRoom(rooms, last.room) = <<>>
        /\ last.room \notin DOMAIN rooms

\* C3, amended: after addUserToRoom(R,P) followed by removeUserFromRoom(R,P),
\* getUsersInRoom(R) does not list P, and R is a key of the registry exactly
\* when some other participant is a member of R; the other members stay.
C3_JoinThenLeave ==
    [][(last'.op = "removeUserFromRoom" /\ last'.again) =>
          /\ last'.sock \notin Range(getUsersInRoom(rooms', last'.room))
          /\ (last'.room \in DOMAIN rooms') <=>
                 (OwnMembers(rooms, last'.room) \ {last'.sock} # {})
          /\ OwnMembers(rooms', last'.room) = OwnMembers(rooms, last'.room) \ {last'.sock}]_vars

\* C3 witness: P joined a room that already had a member and left again; the
\* room is still registered with the other member.
C3_Witness ==
    /\ last.op = "removeUserFromRoom"
    /\ last.again
    /\ last.room \in DOMAIN rooms
    /\ last.sock \notin Range(rooms[last.room])

\* C4: removeUserFromRoom(R,P), when R is no key of the registry or P is not
\* a member of R, raises no error and leaves the registry unchanged.
C4_LeaveAbsentIsNoOp ==
    [][(/\ last'.op = "removeUserFromRoom"
        /\ last'.sock \notin OwnMembers(rooms, last'.room)) =>
          (~last'.threw /\ rooms' = rooms)]_vars

\* C4 on the identifiers that are not inherited names.
C4_OrdinaryRooms ==
    [][(/\ last'.op = "removeUserFromRoom"
        /\ last'.room \notin ProtoKeys
        /\ last'.sock \notin OwnMembers(rooms, last'.room)) =>
          (~last'.threw /\ rooms' = rooms)]_vars

\* C5: getUsersInRoom(R) never fails and leaves the registry unchanged; for
\* an R that is no key of the registry it returns the empty sequence, for a
\* registered R exactly the members, each once.
C5_ListMembers ==
    [][last'.op = "getUsersInRoom" =>
          /\ ~last'.threw
          /\ rooms' = rooms
          /\ (last'.room \notin DOMAIN rooms => last'.ret = <<>>)
          /\ (last'.room \in DOMAIN rooms =>
                 /\ Range(last'.ret) = Range(rooms[last'.room])
                 /\ \A p \in Range(last'.ret) : Count(p, last'.ret) = 1)]_vars

\* C5 on the identifiers that are not inherited names.
C5_OrdinaryRooms ==
    [][(last'.op = "getUsersInRoom" /\ last'.room \notin ProtoKeys) =>
          /\ ~last'.threw
          /\ rooms' = rooms
          /\ (last'.room \notin DOMAIN rooms => last'.ret = <<>>)
          /\ (last'.room \in DOMAIN rooms =>
                 /\ Range(last'.ret) = Range(rooms[last'.room])
                 /\ \A p \in Range(last'.ret) : Count(p, last'.ret) = 1)]_vars

\* C6: for every room identifier, the empty string and the inherited names
\* included, the three functions return without raising and treat a room
\* that was never joined as absent (it lists no member).
C6_TotalOverRoomIds ==
    /\ (last.op \in RegistryOps => ~last.threw)
    /\ (last.op = "getUsersInRoom" /\ last.room \notin DOMAIN rooms) => last.ret = <<>>
    /\ (last.op = "addUserToRoom") => last.sock \in OwnMembers(rooms, last.room)

\* C6 on the empty string and the other identifiers that are not inherited
\* names: there the three functions never raise.
C6_OrdinaryRooms ==
    (last.op \in RegistryOps /\ last.room \notin ProtoKeys) => ~last.threw

----------------------------------------------------------------------------
(* Claims about the event handlers *)

\* The positions in `emitted` of the emissions of one kind.
Emissions(ev) == {i \in DOMAIN emitted : emitted[i].ev = ev}

\* C7: a room-users broadcast that a join-room event for room R emits lists
\* exactly the registry's members of R after the joiner was added (as a set,
\* each once, the joiner among them) and goes to every member of R, the
\* joiner included; there is exactly one when the joiner is a member of R
\* after the event.
C7_SnapshotAfterJoin ==
    last.op = "join-room" =>
        /\ \A i \in Emissions("room-users") :
              /\ emitted[i].room = last.room
              /\ Range(emitted[i].payload) = OwnMembers(rooms, last.room)
              /\ \A p \in Range(emitted[i].payload) : Count(p, emitted[i].payload) = 1
              /\ last.sock \in Range(emitted[i].payload)
              /\ OwnMembers(rooms, last.room) \subseteq emitted[i].to
              /\ last.sock \in emitted[i].to
        /\ (last.sock \in OwnMembers(rooms, last.room) =>
               Cardinality(Emissions("room-users")) = 1)

\* C7 witness: the second of two sessions has joined the room of the first,
\* and the snapshot naming both went to both.
C7_Witness ==
    /\ last.op = "join-room"
    /\ last.room \in DOMAIN rooms
    /\ \E a, b \in SocketIds :
          /\ a # b
          /\ last.sock = b
          /\ rooms[last.room] = <<a, b>>
          /\ \E i \in Emissions("room-users") :
                emitted[i].payload = <<a, b>> /\ emitted[i].to = {a, b}

\* C8: a join-room(R, displayName) event from S emits a user-joined event,
\* carrying displayName when one is given and S's id otherwise, to the other
\* members of R and not to S, and then the room-users snapshot.  (A name is
\* taken to be given when it is a non-empty string.)
C8_PresenceJoined ==
    last.op = "join-room" =>
        /\ Len(emitted) = 2
        /\ emitted[1].ev = "user-joined"
        /\ emitted[1].payload = (IF last.arg \in {Undefined, ""} THEN last.sock ELSE last.arg)
        /\ emitted[1].to = InRoom(socketRooms, last.room) \ {last.sock}
        /\ OwnMembers(rooms, last.room) \ {last.sock} \subseteq emitted[1].to
        /\ emitted[2].ev = "room-users"

\* C8 for the join-room handlers that return: the same statement holds, so
\* the handlers that raise are the only ones that break it.
C8_WhereJoinReturns ==
    (last.op = "join-room" /\ ~last.threw) =>
        /\ Len(emitted) = 2
        /\ emitted[1].ev = "user-joined"
        /\ emitted[1].payload = (IF last.arg \in {Undefined, ""} THEN last.sock ELSE last.arg)
        /\ emitted[1].to = InRoom(socketRooms, last.room) \ {last.sock}
        /\ OwnMembers(rooms, last.room) \ {last.sock} \subseteq emitted[1].to
        /\ emitted[2].ev = "room-users"

\* C8 with every given string, the empty one too, taken as a display name:
\* the payload would be the string that was passed.
C8_EmptyNameIsAName ==
    (last.op = "join-room" /\ ~last.threw /\ last.arg # Undefined) =>
        emitted[1].payload = last.arg

\* A chat-message event that names a room.
ChatNamingRoom ==
    /\ last.op = "chat-message"
    /\ last.arg.tag = "object"
    /\ last.arg.roomId # Undefined

\* What C9 says of the delivery, the message and the timestamp.
ChatDelivered ==
    /\ Len(emitted) = 1
    /\ emitted[1].ev = "chat-message"
    /\ emitted[1].to = InRoom(socketRooms, last.room)
    /\ OwnMembers(rooms, last.room) \subseteq emitted[1].to
    /\ (last.room \in Range(socketRooms[last.sock]) => last.sock \in emitted[1].to)
    /\ emitted[1].payload.message = last.arg.message
    /\ emitted[1].payload.timestamp # ""

\* C9, as claimed: a chat-message naming room R goes to all members of R,
\* the sender included, with the message, a non-empty timestamp and the
\* sender field equal to the sender that was passed, "Anonymous" if none was.
C9_Original ==
    ChatNamingRoom =>
        /\ ChatDelivered
        /\ emitted[1].payload.sender =
              (IF last.arg.sender # Undefined THEN last.arg.sender ELSE "Anonymous")

\* C9, amended: as C9, with the sender field equal to the sender that was
\* passed when that is a non-empty string, and "Anonymous" when it is
\* missing or empty.
C9_ChatEcho ==
    ChatNamingRoom =>
        /\ ChatDelivered
        /\ emitted[1].payload.sender =
              (IF last.arg.sender \notin {Undefined, ""} THEN last.arg.sender ELSE "Anonymous")

\* C9 witness: a member of a room of two sent a chat message with an empty
\* sender; both got it, the sender too, marked "Anonymous".
C9_Witness ==
    /\ ChatNamingRoom
    /\ last.arg.sender = ""
    /\ last.sock \in OwnMembers(rooms, last.room)
    /\ Cardinality(emitted[1].to) = 2
    /\ last.sock \in emitted[1].to
    /\ emitted[1].payload.sender = "Anonymous"

\* C10: a signaling event (offer, answer, ice-candidate) from S naming room R
\* goes, with the same kind and the payload as received, to every member of
\* R other than S and never to S.
C10_SignalingExcludesSender ==
    (last.op \in SignalKinds /\ last.arg.tag = "object" /\ last.arg.roomId # Undefined) =>
        /\ Len(emitted) = 1
        /\ emitted[1].ev = last.op
        /\ emitted[1].payload = last.arg
        /\ emitted[1].to = InRoom(socketRooms, last.room) \ {last.sock}
        /\ OwnMembers(rooms, last.room) \ {last.sock} \subseteq emitted[1].to
        /\ last.sock \notin emitted[1].to

\* C10 witness: an offer from a member of a room went to the other member
\* of the room and to nobody else.
C10_Witness ==
    /\ last.op = "offer"
    /\ last.arg.tag = "object"
    /\ last.room \in DOMAIN rooms
    /\ last.sock \in Range(rooms[last.room])
    /\ Len(rooms[last.room]) >= 2
    /\ emitted[1].to = Range(rooms[last.room]) \ {last.sock}
    /\ emitted[1].to # {}

----------------------------------------------------------------------------
(* Claims about the session lifecycle *)

\* The sessions whose connection is open.
Connected == {s \in SocketIds : status[s] = "connected"}

\* C11: once a session's disconnect has been processed, getUsersInRoom(R)
\* does not list it, for every room identifier R it passed to join-room,
\* whatever that identifier is; so a room it was the last member of is gone.
C11_DisconnectCascade ==
    \A s \in SocketIds :
        (status[s] = "disconnected" /\ ~crashed) =>
            \A r \in JoinRoomIds \cup DOMAIN rooms :
                s \notin Range(getUsersInRoom(rooms, r))

\* C11 for the rooms that are not named by the session's own id: there the
\* cascade does remove the session.
C11_ExceptOwnId ==
    \A s \in SocketIds :
        (status[s] = "disconnected" /\ ~crashed) =>
            \A r \in (JoinRoomIds \cup DOMAIN rooms) \ {s} :
                s \notin Range(getUsersInRoom(rooms, r))

\* The user-left events of the disconnect just processed that carry the
\* leaver's id and reach session m through room r.
UserLeftReceived(m, r) ==
    {i \in DOMAIN emitted' : /\ emitted'[i].ev = "user-left"
                             /\ emitted'[i].room = r
                             /\ emitted'[i].payload = last'.sock
                             /\ m \in emitted'[i].to}

\* What C12 says of one room r when the session last'.sock disconnects: if
\* the leaver was a member of r, every other connected member of r gets
\* exactly one user-left through r and the leaver none; if it was not, no
\* user-left goes out through r.
UserLeftOncePerRoom(r) ==
    IF last'.sock \in OwnMembers(rooms, r)
    THEN /\ \A m \in (OwnMembers(rooms, r) \cap Connected) \ {last'.sock} :
               Cardinality(UserLeftReceived(m, r)) = 1
         /\ UserLeftReceived(last'.sock, r) = {}
    ELSE \A i \in DOMAIN emitted' :
            ~(emitted'[i].ev = "user-left" /\ emitted'[i].room = r)

\* C12: when a session disconnects, every other member of each room it had
\* joined receives exactly one user-left event per shared room, carrying the
\* leaver's id, however often the leaver had joined that room; through rooms
\* the leaver was not in, none is sent.
C12_UserLeftPerRoom ==
    [][last'.op = "disconnecting" =>
          \A r \in JoinRoomIds \cup DOMAIN rooms : UserLeftOncePerRoom(r)]_vars

\* C12 for the rooms that are not named by the leaver's own id.
C12_ExceptOwnId ==
    [][last'.op = "disconnecting" =>
          \A r \in (JoinRoomIds \cup DOMAIN rooms) \ {last'.sock} : UserLeftOncePerRoom(r)]_vars

JoinedRooms(s) == {r \in DOMAIN rooms : s \in Range(rooms[r])} \ {s}

----------------------------------------------------------------------------
(* Claims about the now-playing update and the variants *)

\* The events a session sends that C14 and C19 speak of.
ChatOrSignalOps == {"chat-message"} \cup SignalKinds

\* C14: the broadcasts of a session's events are emitted in the order the
\* events were received: when the now-playing broadcast of an
\* update-now-playing event is emitted, no event the same session sent after
\* it has had its broadcast emitted already.
C14_InOrder ==
    (last.op = "now-playing" /\ Reaches(emitted)) => ~last.arg.passed

\* A signaling event without a room identifier: no payload at all, or a
\* payload without roomId.
SignalWithoutRoom ==
    /\ last.op \in SignalKinds
    /\ (last.arg.tag = "undefined" \/ last.arg.roomId = Undefined)

\* C15: a signaling event that lacks a room identifier is a silent no-op: it
\* raises no exception that stops the dispatch of later events, and it
\* delivers nothing to any session.
C15_MissingRoomIsNoOp ==
    SignalWithoutRoom =>
        /\ ~last.threw
        /\ ~crashed
        /\ ~Reaches(emitted)

\* C15 for a payload that is an object without roomId: that one is a no-op.
C15_PayloadWithoutRoomId ==
    (SignalWithoutRoom /\ last.arg.tag = "object") =>
        /\ ~last.threw
        /\ ~crashed
        /\ ~Reaches(emitted)

\* The fetch of the now-playing update handled last was answered, with a
\* track or without one.
AnsweredWithTrack ==
    /\ last.op = "now-playing"
    /\ last.arg.answer.tag = "response"
    /\ last.arg.answer.status = 200
    /\ last.arg.answer.item.type = "track"

AnsweredWithoutTrack ==
    /\ last.op = "now-playing"
    /\ last.arg.answer.tag = "response"
    /\ (last.arg.answer.status = 204 \/ last.arg.answer.item.type # "track")

\* One now-playing broadcast with this payload went to the named room.
NowPlayingSent(payload) ==
    /\ Len(emitted) = 1
    /\ emitted[1].ev = "now-playing"
    /\ emitted[1].room = last.room
    /\ emitted[1].to = InRoom(socketRooms, last.room)
    /\ (OwnMembers(rooms, last.room) \cap Connected) \subseteq emitted[1].to
    /\ emitted[1].payload = payload

\* C16: when the fetch yields no track (a 204 answer, or an item that is not
\* a track) the named room receives a now-playing broadcast with payload
\* null; when a track is returned the room receives it as
\* {title, artist, albumArt}.
C16_NowPlaying ==
    /\ AnsweredWithoutTrack => NowPlayingSent(Null)
    /\ AnsweredWithTrack =>
          /\ Len(emitted) = 1
          /\ DOMAIN emitted[1].payload = {"title", "artist", "albumArt"}
          /\ NowPlayingSent([title |-> last.arg.answer.item.name,
                             artist |-> JoinNames(last.arg.answer.item.artists),
                             albumArt |-> emitted[1].payload.albumArt])

\* C16 for the tracks whose album has an image: those are broadcast as
\* claimed, with the first image as albumArt.
C16_WhenAlbumHasArt ==
    /\ AnsweredWithoutTrack => NowPlayingSent(Null)
    /\ (AnsweredWithTrack /\ last.arg.answer.item.images # <<>>) =>
          NowPlayingSent([title |-> last.arg.answer.item.name,
                          artist |-> JoinNames(last.arg.answer.item.artists),
                          albumArt |-> last.arg.answer.item.images[1]])

\* C17: after any sequence of join-room and disconnect events, the room-users
\* snapshot a connected member of room R received last for R equals
\* getUsersInRoom(R): it is never stale, also after another member has
\* disconnected.
C17_RosterNeverStale ==
    \A s \in Connected : \A r \in DOMAIN rooms :
        s \in Range(rooms[r]) =>
            /\ r \in DOMAIN roster[s]
            /\ roster[s][r] = getUsersInRoom(rooms, r)

\* C18: in every reachable state the registry and the transport agree: no
\* session that has disconnected is left in a membership set, every member
\* of R is in the transport's room R, and every session in the transport's
\* room R is a member of R (but for the session whose id R is, which
\* Socket.IO put there itself).
C18_RegistryMatchesTransport ==
    ~crashed =>
        \A r \in JoinRoomIds \cup DOMAIN rooms :
            /\ OwnMembers(rooms, r) \subseteq Connected
            /\ OwnMembers(rooms, r) \subseteq InRoom(socketRooms, r)
            /\ InRoom(socketRooms, r) \ {r} \subseteq OwnMembers(rooms, r)

\* C18 for the rooms that are not named by a session id: there the
\* registry's members are exactly the sessions in the transport's room, all
\* of them connected.
C18_ExceptSessionNamedRooms ==
    ~crashed =>
        \A r \in (JoinRoomIds \cup DOMAIN rooms) \ Range(SocketNames) :
            /\ OwnMembers(rooms, r) = InRoom(socketRooms, r)
            /\ OwnMembers(rooms, r) \subseteq Connected

\* C19: chat, signaling and now-playing events never change the registry,
\* whatever their payload and whoever sends them: the room keys and every
\* membership set are as before; only join-room and disconnecting change it.
C19_RoutingKeepsRegistry ==
    [][/\ (last'.op \in ChatOrSignalOps \cup {"update-now-playing", "now-playing"}) => rooms' = rooms
       /\ rooms' # rooms => last'.op \in {"join-room", "disconnecting"}]_vars

\* C19 witness: with a room registered, a now-playing broadcast has reached
\* its members.
C19_Witness ==
    /\ last.op = "now-playing"
    /\ last.room \in DOMAIN rooms
    /\ Reaches(emitted)
    /\ emitted[1].to = Range(rooms[last.room])

\* C20: a join-room for room R from a session that is already a member of R
\* leaves the registry unchanged and is not deduplicated on the broadcast
\* side: like every join-room it emits one user-joined to the other members
\* and then one room-users to the whole room, so the others receive as many
\* user-joined events for a session as it sent join-room events.
C20_RepeatedJoin ==
    [][(last'.op = "join-room" /\ ~last'.threw) =>
          /\ (last'.sock \in OwnMembers(rooms, last'.room) => rooms' = rooms)
          /\ Cardinality(Emissions("user-joined")') = 1
          /\ Cardinality(Emissions("room-users")') = 1
          /\ Len(emitted') = 2
          /\ emitted'[1].ev = "user-joined"
          /\ emitted'[1].room = last'.room
          /\ emitted'[1].to = InRoom(socketRooms', last'.room) \ {last'.sock}
          /\ (OwnMembers(rooms', last'.room) \cap Connected) \ {last'.sock} \subseteq emitted'[1].to
          /\ emitted'[2].ev = "room-users"
          /\ emitted'[2].payload = getUsersInRoom(rooms', last'.room)
          /\ (OwnMembers(rooms', last'.room) \cap Connected) \subseteq emitted'[2].to]_vars

\* C20 witness: the session that joined the room first has sent join-room
\* for it again; the member that joined after it was sent the user-joined
\* once more, and the room the roster.
C20_Witness ==
    /\ last.op = "join-room"
    /\ last.room \in DOMAIN rooms
    /\ Len(rooms[last.room]) >= 2
    /\ rooms[last.room][1] = last.sock
    /\ Len(emitted) = 2
    /\ emitted[1].ev = "user-joined"
    /\ emitted[1].to = Range(rooms[last.room]) \ {last.sock}
    /\ emitted[2].payload = rooms[last.room]

----------------------------------------------------------------------------
(* Claims about routing by membership and about failed updates *)

\* The event handled last is a chat or signaling event that names a room.
RoutedNamingRoom ==
    /\ last.op \in ChatOrSignalOps
    /\ last.arg.tag = "object"
    /\ last.arg.roomId # Undefined

\* The sessions a routed event of this kind from this sender must not reach.
Excluded(op, socketId) == IF op \in SignalKinds THEN {socketId} ELSE {}

\* C21: the recipients of a chat or signaling event naming room R are
\* determined by R's membership alone, whoever sends it: every connected
\* member of R (but the sender of a signaling event) receives it, nobody who
\* is not a member of R does, and so a sender that never joined R gets no
\* echo of its own chat message.
C21_RoutedByMembership ==
    RoutedNamingRoom =>
        /\ Len(emitted) = 1
        /\ (OwnMembers(rooms, last.room) \cap Connected) \ Excluded(last.op, last.sock)
              \subseteq emitted[1].to
        /\ emitted[1].to \subseteq OwnMembers(rooms, last.room)
        /\ (last.op = "chat-message" /\ last.sock \notin OwnMembers(rooms, last.room)) =>
              last.sock \notin emitted[1].to

\* C21 for the rooms that are not named by a session id: there the
\* recipients are the members, and a non-member sender gets no echo.
C21_ExceptSessionNamedRooms ==
    (RoutedNamingRoom /\ last.room \notin Range(SocketNames)) =>
        /\ Len(emitted) = 1
        /\ emitted[1].to = OwnMembers(rooms, last.room) \ Excluded(last.op, last.sock)
        /\ emitted[1].to \subseteq Connected
        /\ (last.op = "chat-message" /\ last.sock \notin OwnMembers(rooms, last.room)) =>
              last.sock \notin emitted[1].to

\* A non-member of an ordinary room has sent a chat message to it: the
\* members received it and the sender did not.
C21_NonMemberSends ==
    /\ RoutedNamingRoom
    /\ last.op = "chat-message"
    /\ last.room \notin Range(SocketNames)
    /\ last.sock \notin OwnMembers(rooms, last.room)
    /\ emitted[1].to # {}

\* The rooms of the registry a session is a member of.
MemberOf(reg, s) == {r \in DOMAIN reg : s \in Range(reg[r])}

\* C22: while a session stays connected its joined rooms only grow: a step
\* that takes a session out of a membership set (or out of a room of the
\* transport) is the handling of that session's own disconnecting event and
\* of no other event; and Disconnected is terminal: a session that has
\* disconnected stays disconnected and is never added to a membership set
\* or to a room of the transport again.
C22_MembershipOnlyGrows ==
    [][\A s \in SocketIds :
          /\ ~(MemberOf(rooms, s) \subseteq MemberOf(rooms', s)) =>
                (last'.op = "disconnecting" /\ last'.sock = s)
          /\ ~(Range(socketRooms[s]) \subseteq Range(socketRooms'[s])) =>
                (last'.op = "disconnecting" /\ last'.sock = s)
          /\ status[s] = "disconnected" =>
                /\ status'[s] = "disconnected"
                /\ MemberOf(rooms', s) \subseteq MemberOf(rooms, s)
                /\ socketRooms'[s] = <<>>]_vars

\* C22 witness: a session that is a member of two rooms has sent a chat or
\* signaling event and is a member of both still, while another session has
\* disconnected and is a member of none.
C22_Witness ==
    /\ last.op \in ChatOrSignalOps
    /\ status[last.sock] = "connected"
    /\ Cardinality(MemberOf(rooms, last.sock)) >= 2
    /\ \E t \in SocketIds : status[t] = "disconnected" /\ MemberOf(rooms, t) = {}

\* An update-now-playing event that came without any payload.
UpdateWithoutPayload ==
    /\ last.op = "update-now-playing"
    /\ last.arg.tag = "undefined"

\* The now-playing update handled last failed: it came without an access
\* token (over the socket, or as a POST), or its fetch raised an error.
FailedUpdate ==
    \/ UpdateWithoutPayload
    \/ (last.op = "update-now-playing" /\ last.arg.tag = "object" /\ Falsy(last.arg.accessToken))
    \/ (last.op = "POST /update-now-playing" /\ Falsy(last.arg.accessToken))
    \/ (last.op = "now-playing" /\ last.arg.answer.tag = "error")

\* What C23 says of the step that handles a failed update: nothing is
\* broadcast, the registry and what the sessions hold are as before, and the
\* process goes on handling events.
SilentStep ==
    /\ emitted' = <<>>
    /\ rooms' = rooms
    /\ socketRooms' = socketRooms
    /\ status' = status
    /\ roster' = roster
    /\ ~crashed'

\* C23: a now-playing update that fails (the access token is missing, or
\* the external fetch raises an error) broadcasts no now-playing event to
\* any room, leaves the registry unchanged and does not keep later events
\* from being processed: the missing broadcast is all the members see.
C23_FailedUpdateIsSilent ==
    [][FailedUpdate' => SilentStep]_vars

\* C23 for the updates that carry a payload: one without an access token,
\* and one whose fetch raises an error, are silent as claimed.
C23_WhenPayloadGiven ==
    [][(FailedUpdate' /\ ~UpdateWithoutPayload') => SilentStep]_vars

\* A fetch of a session in a registered room with members has raised an
\* error, and nothing was broadcast.
C23_FetchErrorSeen ==
    /\ last.op = "now-playing"
    /\ last.arg.answer.tag = "error"
    /\ last.room \in DOMAIN rooms
    /\ InRoom(socketRooms, last.room) # {}
    /\ emitted = <<>>

====
